---- MODULE Spec2Model ----
(***************************************************************************)
(* Model of ClinicalTrialsProspector (src/clinical_trials_prospector.py):  *)
(* the paginated fetch loop, the organization classifier and filter, the   *)
(* per-record extraction and the column resolution / CSV writing of the    *)
(* exporters.                                                              *)
(*                                                                         *)
(* Python values are represented as follows: a str is a TLA+ string, a     *)
(* list is a sequence, a dict is a function from its keys, None is <<>>    *)
(* and an optional value x that is not None is <<x>>.                      *)
(***************************************************************************)
EXTENDS Integers, Sequences, FiniteSets, TLC

VARIABLES
    include_types,      \* self.include_types: None or the set of listed types
    exclude_types,      \* self.exclude_types: the set of listed types
    extraction_options, \* self.extraction_options: the set of listed keys
    trials_data,        \* self.trials_data
    extracted_data,     \* self.extracted_data
    pc,                 \* position of the running fetch_trials activation
    max_results,        \* fetch_trials: its max_results argument
    page_token,         \* fetch_trials: its local page_token
    requests,           \* the page requests issued so far, with their answers
    call,               \* the last completed call: its arguments and outcome
    prospector,         \* app.py: the instance the module-level name is bound to
    instances,          \* app.py: the instances constructed so far
    lists,              \* app.py: the list objects the instances' fields refer to
    handlers            \* app.py: the requests being served, one thread each

\* the state of the web layer
appvars == <<prospector, instances, lists, handlers>>

vars == <<include_types, exclude_types, extraction_options, trials_data,
          extracted_data, pc, max_results, page_token, requests, call, appvars>>

\* no web layer: the class is used on its own
NoApp == prospector = 0 /\ instances = <<>> /\ lists = <<>> /\ handlers = <<>>

None == <<>>
Some(x) == <<x>>

Min(a, b) == IF a <= b THEN a ELSE b

RECURSIVE Range(_)
Range(s) == IF s = <<>> THEN {} ELSE {Head(s)} \cup Range(Tail(s))

(***************************************************************************)
(* Bounds of the model.                                                    *)
(***************************************************************************)
MaxPages == 2       \* max_results ranges up to MaxPages full pages plus one
MaxRequests == 4    \* page requests followed in one fetch_trials activation
MaxFragments == 2   \* name fragments an organization name is made of
MaxTrials == 2      \* raw records in the list given to extract_data
MaxRows == 2        \* extracted records in the working set that is exported
MaxOrder == 2       \* names in an explicit column order
MaxHandlers == 3    \* requests the web layer serves
MaxSearches == 2    \* search requests among them
MaxMentions == 3    \* organization mentions a company roster is built from

(***************************************************************************)
(* fetch_trials: the pagination loop.                                      *)
(*                                                                         *)
(* A raw record is represented by its NCT id, a positive number.  The      *)
(* registry is outside the program: each page request is answered by any   *)
(* of the answers in Answers.                                              *)
(***************************************************************************)
page_size == 100

MaxResultsValues ==
    {0, 1, 2} \cup {k * page_size + d : k \in 1..MaxPages, d \in {-1, 0, 1}}

\* the records first, first+1, ..., first+n-1
Ids(first, n) == [j \in 1..n |-> first + j - 1]

\* 'pageSize': min(page_size, max_results - len(self.trials_data))
PageSize(m, len) == Min(page_size, m - len)

\* while len(self.trials_data) < max_results
LoopCondMutant(len, m) == len <= m
LoopCond(len, m) == len < m

\* The 'studies' lists the registry may put in a page when pageSize records
\* were asked for and len records were delivered before: an empty page, a
\* short page, a full page, a page with one record more than asked for;
\* made of records not delivered before, or starting over at the first one.
PageContents(pageSize, len) ==
    {Ids(first, n) : first \in {len + 1, 1}, n \in {0, 1, pageSize, pageSize + 1}}

\* What requests.get, raise_for_status and response.json raise on a
\* transport error, an HTTP error status and a body that is no JSON; all
\* three are subclasses of requests.exceptions.RequestException
\* (requests.exceptions.JSONDecodeError as of requests 2.27).
RequestExceptions == {"ConnectionError", "HTTPError", "JSONDecodeError"}

\* The answers to the i-th page request.  "AttributeError" is a body that is
\* valid JSON but no object (a list, null): data.get('studies', []) raises
\* AttributeError, which is no RequestException.
Answers(pageSize, len, i) ==
    [outcome : {"ok"}, studies : PageContents(pageSize, len),
     nextPageToken : {None, Some(i)}]
    \cup [outcome : RequestExceptions \cup {"AttributeError"}, studies : {<<>>},
          nextPageToken : {None}]

\* except requests.exceptions.RequestException
Caught(outcome) == outcome \in RequestExceptions

\* the studies of a page are not kept
ExtendMutant(data, studies) == data
\* self.trials_data.extend(studies)
Extend(data, studies) == data \o studies

\* print("Fetched ..."); return self.trials_data
FetchEnd(outcome, data) ==
    /\ pc' = outcome
    /\ call' = [op |-> "fetch_trials", outcome |-> outcome,
                ret |-> IF outcome = "returned" THEN Some(data) ELSE None]

\* fetch_trials(max_results=m), up to the loop
FetchStart(m) ==
    /\ pc # "loop"
    /\ trials_data' = <<>>
    /\ page_token' = None
    /\ max_results' = m
    /\ requests' = <<>>
    /\ pc' = "loop"
    /\ call' = [op |-> "none"]
    /\ UNCHANGED <<include_types, exclude_types, extraction_options,
                   extracted_data>>
    /\ UNCHANGED appvars

FetchCall == \E m \in MaxResultsValues : FetchStart(m)

\* the loop test fails: fall out of the loop and return
FetchReturn ==
    /\ pc = "loop"
    /\ ~LoopCond(Len(trials_data), max_results)
    /\ FetchEnd("returned", trials_data)
    /\ UNCHANGED <<include_types, exclude_types, extraction_options,
                   trials_data, extracted_data, max_results, page_token, requests>>
    /\ UNCHANGED appvars

\* one iteration of the loop: a page request and what is done with its answer
FetchPage ==
    /\ pc = "loop"
    /\ LoopCond(Len(trials_data), max_results)
    /\ Len(requests) < MaxRequests
    /\ LET pageSize == PageSize(max_results, Len(trials_data))
       IN \E a \in Answers(pageSize, Len(trials_data), Len(requests) + 1) :
            /\ requests' = Append(requests,
                  [pageSize |-> pageSize, pageToken |-> page_token,
                   outcome |-> a.outcome, studies |-> a.studies,
                   nextPageToken |-> a.nextPageToken])
            /\ IF a.outcome # "ok"
               THEN \* the request failed: break if the exception is caught
                    /\ UNCHANGED <<trials_data, page_token>>
                    /\ IF Caught(a.outcome)
                       THEN FetchEnd("returned", trials_data)
                       ELSE FetchEnd("raised", trials_data)
               ELSE IF a.studies = <<>>
               THEN \* if not studies: break
                    /\ UNCHANGED <<trials_data, page_token>>
                    /\ FetchEnd("returned", trials_data)
               ELSE /\ trials_data' = Extend(trials_data, a.studies)
                    /\ page_token' = a.nextPageToken
                    /\ IF a.nextPageToken = None
                       THEN \* if not page_token: break
                            FetchEnd("returned", trials_data')
                       ELSE \* time.sleep(0.2), back to the loop test
                            UNCHANGED <<pc, call>>
    /\ UNCHANGED <<include_types, exclude_types, extraction_options,
                   extracted_data, max_results>>
    /\ UNCHANGED appvars

InitFetch ==
    /\ include_types = None
    /\ exclude_types = {}
    /\ extraction_options = {"sponsors"}
    /\ trials_data = <<>>
    /\ extracted_data = <<>>
    /\ pc = "idle"
    /\ max_results = 0
    /\ page_token = None
    /\ requests = <<>>
    /\ call = [op |-> "none"]
    /\ NoApp

NextFetch == FetchCall \/ FetchReturn \/ FetchPage

SpecFetch == InitFetch /\ [][NextFetch]_vars

(***************************************************************************)
(* Claims about fetch_trials, checked under SpecFetch.                     *)
(***************************************************************************)
CeilDiv(a, b) == (a + b - 1) \div b

Last(s) == s[Len(s)]
Front(s) == SubSeq(s, 1, Len(s) - 1)

\* the records of the pages in reqs, in page order
RECURSIVE Accumulated(_)
Accumulated(reqs) ==
    IF reqs = <<>> THEN <<>> ELSE Head(reqs).studies \o Accumulated(Tail(reqs))

FetchOver == pc \in {"returned", "raised"}

\* C1: whatever pages the registry gives, the list fetch_trials returns
\* holds at most max_results records.
C1_AtMostMaxResults ==
    (call.op = "fetch_trials" /\ call.outcome = "returned" /\ max_results >= 1)
        => Len(call.ret[1]) <= max_results

\* every page but the last one asked for holds between 1 and pageSize records
NonFinalPagesWithinPageSize ==
    \A i \in 1..(Len(requests) - 1) :
        /\ requests[i].outcome = "ok"
        /\ Len(requests[i].studies) \in 1..requests[i].pageSize

\* every page but the last one asked for holds exactly pageSize records
NonFinalPagesFull ==
    \A i \in 1..(Len(requests) - 1) :
        /\ requests[i].outcome = "ok"
        /\ Len(requests[i].studies) = requests[i].pageSize

\* C2 as stated: when every non-final page holds between 1 and pageSize
\* records, fetch_trials issues at most ceil(max_results / 100) requests.
C2_RequestBound ==
    (max_results >= 1 /\ NonFinalPagesWithinPageSize)
        => Len(requests) <= CeilDiv(max_results, page_size)

\* C2 as amended: when every non-final page holds exactly the pageSize
\* records asked for, fetch_trials issues at most ceil(max_results / 100)
\* requests.
C2_FullPagesRequestBound ==
    (max_results >= 1 /\ NonFinalPagesFull)
        => Len(requests) <= CeilDiv(max_results, page_size)

\* fetch_trials has returned after more than one full page, having issued
\* exactly ceil(max_results / 100) requests
C2_Witness ==
    /\ pc = "returned"
    /\ max_results > page_size
    /\ NonFinalPagesFull
    /\ Len(requests) = CeilDiv(max_results, page_size)
    /\ Len(requests) >= 2

\* C3: when a page request fails, fetch_trials does not raise: it returns
\* the records of the pages before the failed one, in page order.
C3_FailureReturnsPartial ==
    (FetchOver /\ requests # <<>> /\ Last(requests).outcome # "ok")
        => /\ pc = "returned"
           /\ call.ret = Some(Accumulated(Front(requests)))

(***************************************************************************)
(* Strings: str.lower and the substring test `keyword in name`.            *)
(***************************************************************************)
UpperCase == "ABCDEFGHIJKLMNOPQRSTUVWXYZ"
LowerCase == "abcdefghijklmnopqrstuvwxyz"

CharAt(s, i) == SubSeq(s, i, i)

\* the 1-based position of character c in string s, 0 when it is not there
IndexOf(c, s) ==
    IF \E i \in 1..Len(s) : CharAt(s, i) = c
    THEN CHOOSE i \in 1..Len(s) :
            CharAt(s, i) = c /\ \A j \in 1..(i - 1) : CharAt(s, j) # c
    ELSE 0

\* the lower-case letter of each upper-case letter
LowerTable ==
    [c \in {CharAt(UpperCase, i) : i \in 1..Len(UpperCase)} |->
        CharAt(LowerCase, IndexOf(c, UpperCase))]

LowerChar(c) == IF c \in DOMAIN LowerTable THEN LowerTable[c] ELSE c

\* name.lower()
RECURSIVE LowerFrom(_, _)
LowerFrom(s, i) ==
    IF i > Len(s) THEN "" ELSE LowerChar(CharAt(s, i)) \o LowerFrom(s, i + 1)

Lower(s) == LowerFrom(s, 1)

\* keyword in name_lower
Contains(hay, needle) ==
    \/ needle = ""
    \/ \E i \in 1..(Len(hay) - Len(needle) + 1) :
          SubSeq(hay, i, i + Len(needle) - 1) = needle

(***************************************************************************)
(* The organization classifier.                                            *)
(***************************************************************************)
\* ORGANIZATION_TYPES, in the order of the dict.  The two keywords of the
\* source that hold non-ASCII characters are written with <U+xxxx> for each
\* such character; no name of the model holds them.
ORGANIZATION_TYPES == <<
    [key |-> "university",
     keywords |-> <<"university", "universite", "universit<U+221A><U+00DF>t",
                    "universidad", "universiti", "college", "<U+221A><U+00A9>cole">>],
    [key |-> "institute",
     keywords |-> <<"institute", "institut", "instituto", "research center",
                    "research centre">>],
    [key |-> "hospital",
     keywords |-> <<"hospital", "medical center", "medical centre", "health system",
                    "health center", "clinic", "clinique", "klinik">>],
    [key |-> "government",
     keywords |-> <<"national institutes", "nih", "ministry of health",
                    "department of health", "veterans affairs", "va medical",
                    "public health", "government">>],
    [key |-> "foundation",
     keywords |-> <<"foundation", "fondation", "fundacion", "stichting", "trust fund">>],
    [key |-> "academic",
     keywords |-> <<"school of medicine", "school of pharmacy", "faculty of",
                    "academy", "academie", "academic">>],
    [key |-> "nonprofit",
     keywords |-> <<"nonprofit", "non-profit", "charity", "charitable", "society",
                    "association", "organization">>],
    [key |-> "company", keywords |-> <<>>] >>

\* for keyword in info['keywords']: if keyword in name_lower: return org_type
KeywordHit(info, name_lower) ==
    \E k \in 1..Len(info.keywords) : Contains(name_lower, info.keywords[k])

\* for org_type, info in self.ORGANIZATION_TYPES.items(): ...; return 'company'
RECURSIVE ScanTypes(_, _)
ScanTypes(types, name_lower) ==
    IF types = <<>> THEN "company"
    ELSE IF Head(types).key = "company" THEN ScanTypes(Tail(types), name_lower)
    ELSE IF KeywordHit(Head(types), name_lower) THEN Head(types).key
    ELSE ScanTypes(Tail(types), name_lower)

Reverse(s) == [i \in 1..Len(s) |-> s[Len(s) + 1 - i]]

get_organization_typeMutant(name) ==
    IF name = "" THEN "unknown"
    ELSE ScanTypes(Reverse(ORGANIZATION_TYPES), Lower(name))
get_organization_type(name) ==
    IF name = "" THEN "unknown"
    ELSE ScanTypes(ORGANIZATION_TYPES, Lower(name))

should_include_organizationMutant(name, include, exclude) ==
    IF name = "" THEN FALSE
    ELSE LET org_type == get_organization_type(name)
         IN IF include # None
            THEN org_type \in include[1] /\ org_type \notin exclude
            ELSE org_type \notin exclude
should_include_organization(name, include, exclude) ==
    IF name = "" THEN FALSE
    ELSE LET org_type == get_organization_type(name)
         IN IF include # None
            THEN org_type \in include[1]
            ELSE org_type \notin exclude

\* Organization names: up to MaxFragments of these fragments, concatenated.
Fragments == {"University ", "HOSPITAL", "Acme Pharma Inc", "Clin", "ic",
              "Institut", "Society of Medic", "al Center"}

RECURSIVE NamesOf(_)
NamesOf(n) ==
    IF n = 0 THEN {""}
    ELSE LET shorter == NamesOf(n - 1)
         IN shorter \cup {a \o f : a \in shorter, f \in Fragments}

Names == NamesOf(MaxFragments)

\* The lists of types a prospector is constructed with.
TypeLists == {{}, {"company"}, {"university", "hospital"},
              {"company", "institute", "government", "nonprofit"}}

\* __init__(include_types, exclude_types, extraction_options)
Construct(include, exclude, options) ==
    /\ trials_data = <<>>
    /\ extracted_data = <<>>
    /\ include_types = include
    /\ exclude_types = IF exclude = None \/ exclude = Some({}) THEN {} ELSE exclude[1]
    /\ extraction_options =
          IF options = None \/ options = Some({}) THEN {"sponsors"} ELSE options[1]

\* A prospector as constructed, and the name the classifier is asked about.
InitClassify ==
    /\ \E include \in {None} \cup {Some(t) : t \in TypeLists},
          exclude \in {None, Some({"company"}), Some({"university", "hospital"})} :
            Construct(include, exclude, None)
    /\ pc = "idle"
    /\ max_results = 0
    /\ page_token = None
    /\ requests = <<>>
    /\ \E name \in Names : call = [op |-> "pending", name |-> name]
    /\ NoApp

GetOrganizationType ==
    /\ call.op = "pending"
    /\ call' = [op |-> "get_organization_type", name |-> call.name,
                ret |-> get_organization_type(call.name)]
    /\ UNCHANGED <<include_types, exclude_types, extraction_options, trials_data,
                   extracted_data, pc, max_results, page_token, requests>>
    /\ UNCHANGED appvars

ShouldIncludeOrganization ==
    /\ call.op = "pending"
    /\ call' = [op |-> "should_include_organization", name |-> call.name,
                ret |-> should_include_organization(call.name, include_types,
                                                    exclude_types)]
    /\ UNCHANGED <<include_types, exclude_types, extraction_options, trials_data,
                   extracted_data, pc, max_results, page_token, requests>>
    /\ UNCHANGED appvars

NextClassify == GetOrganizationType \/ ShouldIncludeOrganization

SpecClassify == InitClassify /\ [][NextClassify]_vars

(***************************************************************************)
(* Claims about the classifier, checked under SpecClassify.                *)
(***************************************************************************)
\* the categories that carry keywords, in taxonomy order
TaxonomyOrder == <<"university", "institute", "hospital", "government",
                   "foundation", "academic", "nonprofit">>

KeywordsOf(category) ==
    LET i == CHOOSE j \in 1..Len(ORGANIZATION_TYPES) :
                ORGANIZATION_TYPES[j].key = category
    IN Range(ORGANIZATION_TYPES[i].keywords)

\* one of the category's keywords is a substring of the lowercased name
MatchesLowered(lowered, category) ==
    \E keyword \in KeywordsOf(category) : Contains(lowered, keyword)

Matches(name, category) == MatchesLowered(Lower(name), category)

MatchingPositions(name) ==
    LET lowered == Lower(name)
    IN {i \in 1..Len(TaxonomyOrder) : MatchesLowered(lowered, TaxonomyOrder[i])}

\* C4: get_organization_type returns 'unknown' for the empty name, otherwise
\* the first category in taxonomy order one of whose keywords is a substring
\* of the lowercased name, and 'company' when no category matches.
C4_FirstMatchingCategory ==
    call.op = "get_organization_type" =>
        LET matching == MatchingPositions(call.name)
        IN /\ call.name = "" => call.ret = "unknown"
           /\ (call.name # "" /\ matching = {}) => call.ret = "company"
           /\ (call.name # "" /\ matching # {}) =>
                 \E i \in matching :
                    /\ call.ret = TaxonomyOrder[i]
                    /\ \A j \in matching : i <= j

\* a name that matches keywords of two categories has been classified
C4_Witness ==
    /\ call.op = "get_organization_type"
    /\ Cardinality(MatchingPositions(call.name)) >= 2
    /\ call.ret = "university"
    /\ Matches(call.name, "hospital")

\* C5: should_include_organization is false for the empty name; with an
\* include-set it is true iff the name's category is in the include-set,
\* whatever the exclude-set holds; without one it is true iff the category is
\* not in the exclude-set.
C5_IncludeTakesPrecedence ==
    call.op = "should_include_organization" =>
        LET category == get_organization_type(call.name)
        IN /\ call.name = "" => call.ret = FALSE
           /\ (call.name # "" /\ include_types # None) =>
                 (call.ret <=> category \in include_types[1])
           /\ (call.name # "" /\ include_types = None) =>
                 (call.ret <=> category \notin exclude_types)
           /\ (call.name # "" /\ include_types = None /\ exclude_types = {}) =>
                 call.ret = TRUE

\* a name whose category is both in the include-set and in the exclude-set
\* has been admitted
C5_Witness ==
    /\ call.op = "should_include_organization"
    /\ call.name # ""
    /\ include_types # None
    /\ get_organization_type(call.name) \in include_types[1] \cap exclude_types
    /\ call.ret = TRUE

(***************************************************************************)
(* extract_data.                                                           *)
(*                                                                         *)
(* A raw record of the model is a study with an NCT id and a lead sponsor  *)
(* name and no other data, so that every other field takes its default;    *)
(* `malformed` names the part of it that is not a mapping ("none": every   *)
(* part is one): the study itself, its protocolSection, or a module.       *)
(***************************************************************************)
\* the module each extractor reads with ps.get(<module>, {}).get(...)
ModuleOf == [sponsors |-> "sponsorsCollaboratorsModule",
             investigators |-> "contactsLocationsModule",
             locations |-> "contactsLocationsModule",
             interventions |-> "armsInterventionsModule",
             conditions |-> "conditionsModule",
             outcomes |-> "outcomesModule",
             design |-> "designModule",
             eligibility |-> "eligibilityModule",
             contacts |-> "contactsLocationsModule",
             timeline |-> "statusModule"]

\* the order of the `if '<key>' in self.extraction_options` statements
ExtractorOrder == <<"sponsors", "investigators", "locations", "interventions",
                    "conditions", "outcomes", "design", "eligibility", "contacts",
                    "timeline">>

\* _extract_sponsors ... _extract_timeline on a study that holds nothing but
\* its lead sponsor name
Extractor(key, study) ==
    CASE key = "sponsors" ->
            [lead_sponsor |-> study.lead, lead_sponsor_class |-> "",
             lead_sponsor_type |-> get_organization_type(study.lead),
             collaborators |-> "", collaborator_count |-> 0]
      [] key = "investigators" ->
            [principal_investigators |-> "", pi_affiliations |-> "", pi_count |-> 0]
      [] key = "locations" ->
            [facilities |-> "", cities |-> "", countries |-> "", location_count |-> 0]
      [] key = "interventions" ->
            [drugs |-> "", devices |-> "", procedures |-> "",
             other_interventions |-> "", intervention_count |-> 0]
      [] key = "conditions" ->
            [conditions |-> "", keywords |-> "", condition_count |-> 0]
      [] key = "outcomes" ->
            [primary_outcomes |-> "", secondary_outcomes |-> "",
             primary_outcome_count |-> 0, secondary_outcome_count |-> 0]
      [] key = "design" ->
            [phase |-> "", study_type |-> "", enrollment |-> 0, allocation |-> "",
             intervention_model |-> "", primary_purpose |-> "", masking |-> ""]
      [] key = "eligibility" ->
            [min_age |-> "", max_age |-> "", sex |-> "", healthy_volunteers |-> "",
             eligibility_criteria |-> ""]
      [] key = "contacts" ->
            [contact_name |-> "", contact_email |-> "", contact_phone |-> ""]
      [] key = "timeline" ->
            [start_date |-> "", completion_date |-> "", last_update |-> ""]

\* dict.update
Update(d, e) ==
    [k \in DOMAIN d \cup DOMAIN e |-> IF k \in DOMAIN e THEN e[k] ELSE d[k]]

\* lines 255-283: the selected extractors, in the order of the statements
RECURSIVE RunExtractors(_, _, _, _)
RunExtractors(order, extracted, study, options) ==
    IF order = <<>> THEN extracted
    ELSE RunExtractors(Tail(order),
                       IF Head(order) \in options
                       THEN Update(extracted, Extractor(Head(order), study))
                       ELSE extracted,
                       study, options)

\* lines 244-245 raise: study.get, ps.get or identificationModule.get fails,
\* before nct_id is assigned
RaisesBeforeNctId(study) ==
    study.malformed \in {"study", "protocolSection", "identificationModule"}

\* lines 248-283 raise: the base fields read statusModule, each selected
\* extractor reads its module
RaisesAfterNctId(study, options) ==
    \/ study.malformed = "statusModule"
    \/ \E k \in 1..Len(ExtractorOrder) :
          /\ ExtractorOrder[k] \in options
          /\ ModuleOf[ExtractorOrder[k]] = study.malformed

\* lines 248-283
Extracted(study, options) ==
    RunExtractors(ExtractorOrder,
                  [nct_id |-> study.nct, title |-> "", status |-> ""],
                  study, options)

\* extracted.get('lead_sponsor', '')
LeadSponsorOf(extracted) ==
    IF "lead_sponsor" \in DOMAIN extracted THEN extracted["lead_sponsor"] ELSE ""

\* lines 286-292: is the extracted row appended
RetainedMutant(extracted, options, include, exclude) ==
    /\ LeadSponsorOf(extracted) # ""
    /\ should_include_organization(LeadSponsorOf(extracted), include, exclude)
Retained(extracted, options, include, exclude) ==
    IF "sponsors" \in options
    THEN /\ LeadSponsorOf(extracted) # ""
         /\ should_include_organization(LeadSponsorOf(extracted), include, exclude)
    ELSE TRUE

\* except Exception as e: print("... {}: {}".format(nct_id, e)); continue
\* The handler reads the local nct_id: it raises UnboundLocalError when no
\* record of this call has got as far as assigning it.
HandlerRaises(nct_id_bound) == ~nct_id_bound

\* The loop of extract_data over the rest of the list; rows is
\* self.extracted_data, nct_id_bound tells whether the local nct_id has been
\* assigned by an earlier iteration.
RECURSIVE ExtractLoop(_, _, _, _, _, _)
ExtractLoop(trials, rows, nct_id_bound, options, include, exclude) ==
    IF trials = <<>> THEN [outcome |-> "returned", rows |-> rows]
    ELSE LET study == Head(trials)
         IN IF RaisesBeforeNctId(study)
            THEN IF HandlerRaises(nct_id_bound)
                 THEN [outcome |-> "raised", rows |-> rows]
                 ELSE ExtractLoop(Tail(trials), rows, nct_id_bound, options,
                                  include, exclude)
            ELSE IF RaisesAfterNctId(study, options)
            THEN ExtractLoop(Tail(trials), rows, TRUE, options, include, exclude)
            ELSE LET extracted == Extracted(study, options)
                 IN ExtractLoop(Tail(trials),
                                IF Retained(extracted, options, include, exclude)
                                THEN Append(rows, extracted) ELSE rows,
                                TRUE, options, include, exclude)

\* The raw records at position i of a list: well-formed ones with an empty,
\* a company and a non-company lead sponsor, malformed ones that hold no
\* readable lead sponsor, and ones with a lead sponsor and a malformed module.
RawTrials(i) ==
    LET nct == <<"NCT01", "NCT02", "NCT03", "NCT04">>[i]
    IN [nct : {nct}, malformed : {"none"},
        lead : {"", "Acme Pharma Inc", "University HOSPITAL"}]
       \cup [nct : {nct},
             malformed : {"study", "protocolSection", "sponsorsCollaboratorsModule"},
             lead : {""}]
       \cup [nct : {nct}, malformed : {"statusModule", "designModule"},
             lead : {"Acme Pharma Inc"}]

RECURSIVE TrialListsOf(_)
TrialListsOf(n) ==
    IF n = 0 THEN {<<>>}
    ELSE LET shorter == TrialListsOf(n - 1)
         IN shorter \cup {Append(l, t) : l \in {x \in shorter : Len(x) = n - 1},
                                          t \in RawTrials(n)}

TrialLists == TrialListsOf(MaxTrials)

\* The extraction_options lists a prospector is constructed with; "sponsor"
\* is no key of DATA_EXTRACTION_OPTIONS.
OptionLists == {{"sponsors"}, {"design"}, {"sponsors", "design"},
                {"investigators", "locations", "timeline"}, {"sponsor"}}

\* A prospector as constructed, and the list extract_data is called with.
InitExtract ==
    /\ \E include \in {None, Some({"company"}), Some({"university", "hospital"})},
          exclude \in {None, Some({"company"})},
          options \in {None} \cup {Some(o) : o \in OptionLists} :
            Construct(include, exclude, options)
    /\ pc = "idle"
    /\ max_results = 0
    /\ page_token = None
    /\ requests = <<>>
    /\ \E trials \in TrialLists : call = [op |-> "pending", trials |-> trials]
    /\ NoApp

\* extract_data(trials)
ExtractData ==
    /\ call.op = "pending"
    /\ LET r == ExtractLoop(call.trials, <<>>, FALSE, extraction_options,
                            include_types, exclude_types)
       IN /\ extracted_data' = r.rows
          /\ call' = [op |-> "extract_data", trials |-> call.trials,
                      outcome |-> r.outcome]
    /\ UNCHANGED <<include_types, exclude_types, extraction_options, trials_data,
                   pc, max_results, page_token, requests>>
    /\ UNCHANGED appvars

NextExtract == ExtractData

SpecExtract == InitExtract /\ [][NextExtract]_vars

(***************************************************************************)
(* Claims about extract_data, checked under SpecExtract.                   *)
(***************************************************************************)
\* the NCT ids of a list of raw records, of a list of extracted rows
NctIdsOfTrials(trials) == [i \in 1..Len(trials) |-> trials[i].nct]
NctIdsOfRows(rows) == [i \in 1..Len(rows) |-> rows[i]["nct_id"]]

\* processing the record raises
Raises(study) ==
    RaisesBeforeNctId(study) \/ RaisesAfterNctId(study, extraction_options)

\* the record passes the filter of the claim
PassesFilter(study) ==
    \/ "sponsors" \notin extraction_options
    \/ should_include_organization(study.lead, include_types, exclude_types)

KeepIfPasses(study) == PassesFilter(study)
KeepIfProcessedAndPasses(study) == ~Raises(study) /\ PassesFilter(study)

C7_MalformedSkipped ==
    call.op = "extract_data" =>
        /\ call.outcome = "returned"
        /\ NctIdsOfRows(extracted_data)
              = NctIdsOfTrials(SelectSeq(call.trials, KeepIfProcessedAndPasses))

(***************************************************************************)
(* The exporters: column resolution.                                       *)
(***************************************************************************)
\* the ASCII characters of code points 32 (space) to 95 (_) and 97 (a) to
\* 126 (~), in code point order
AsciiFrom32 == " !\"#$%&'()*+,-./0123456789:;<=>?@ABCDEFGHIJKLMNOPQRSTUVWXYZ[\\]^_"
AsciiFrom97 == "abcdefghijklmnopqrstuvwxyz{|}~"

\* ord(c)
CodePointTable ==
    [c \in {CharAt(AsciiFrom32, i) : i \in 1..Len(AsciiFrom32)} |->
        31 + IndexOf(c, AsciiFrom32)]
    @@ [c \in {CharAt(AsciiFrom97, i) : i \in 1..Len(AsciiFrom97)} |->
        96 + IndexOf(c, AsciiFrom97)]

CodePoint(c) == CodePointTable[c]

\* a < b on str: the first differing character decides, a proper prefix is
\* smaller
RECURSIVE StrLessFrom(_, _, _)
StrLessFrom(a, b, i) ==
    IF i > Len(b) THEN FALSE
    ELSE IF i > Len(a) THEN TRUE
    ELSE IF CharAt(a, i) = CharAt(b, i) THEN StrLessFrom(a, b, i + 1)
    ELSE CodePoint(CharAt(a, i)) < CodePoint(CharAt(b, i))

StrLess(a, b) == StrLessFrom(a, b, 1)

\* sorted(all_keys)
RECURSIVE Sorted(_)
Sorted(S) ==
    IF S = {} THEN <<>>
    ELSE LET least == CHOOSE x \in S : \A y \in S \ {x} : StrLess(x, y)
         IN <<least>> \o Sorted(S \ {least})

\* all_keys = set(); for row in self.extracted_data: all_keys.update(row.keys())
AllKeys(rows) == UNION {DOMAIN rows[i] : i \in 1..Len(rows)}

priority_fields == <<"nct_id", "title", "status", "lead_sponsor">>

\* fieldnames.remove(field): the list without the first occurrence of field
Remove(fieldnames, field) ==
    LET i == CHOOSE j \in 1..Len(fieldnames) :
                fieldnames[j] = field /\ \A k \in 1..(j - 1) : fieldnames[k] # field
    IN SubSeq(fieldnames, 1, i - 1) \o SubSeq(fieldnames, i + 1, Len(fieldnames))

\* for field in fields: if field in fieldnames: remove it, insert it at 0
RECURSIVE PullToFront(_, _)
PullToFront(fields, fieldnames) ==
    IF fields = <<>> THEN fieldnames
    ELSE PullToFront(Tail(fields),
                     IF Head(fields) \in Range(fieldnames)
                     THEN <<Head(fields)>> \o Remove(fieldnames, Head(fields))
                     ELSE fieldnames)

\* fieldnames = sorted(all_keys); for field in reversed(priority_fields): ...
DefaultFieldnamesMutant(all_keys) == PullToFront(priority_fields, Sorted(all_keys))
DefaultFieldnames(all_keys) == PullToFront(Reverse(priority_fields), Sorted(all_keys))

\* [col for col in cols if col in all_keys], [col for col in cols if col not in ...]
Only(cols, keep) == SelectSeq(cols, LAMBDA col : col \in keep)
Without(cols, drop) == SelectSeq(cols, LAMBDA col : col \notin drop)

\* export_to_xlsx, lines 519-532: column_order is None or a list
XlsxFieldnames(all_keys, column_order) ==
    IF column_order # None /\ column_order[1] # <<>>
    THEN LET fieldnames == Only(column_order[1], all_keys)
         IN fieldnames \o Without(Sorted(all_keys), Range(fieldnames))
    ELSE DefaultFieldnames(all_keys)

\* export_to_csv, lines 604-611
CsvFieldnames(all_keys) == DefaultFieldnames(all_keys)

(***************************************************************************)
(* export_to_csv: csv.DictWriter with the default (excel) dialect, and the *)
(* reading back of the file with csv.DictReader.                           *)
(***************************************************************************)
Comma == ","
Quote == "\""
CR == "\r"
LF == "\n"

\* QUOTE_MINIMAL: the field holds the delimiter, the quote character or a
\* character of the line terminator
NeedsQuote(field) ==
    \E i \in 1..Len(field) : CharAt(field, i) \in {Comma, Quote, CR, LF}

\* doublequote: every quote character of the field is written twice
RECURSIVE DoubleQuotesFrom(_, _)
DoubleQuotesFrom(field, i) ==
    IF i > Len(field) THEN ""
    ELSE (IF CharAt(field, i) = Quote THEN Quote \o Quote ELSE CharAt(field, i))
         \o DoubleQuotesFrom(field, i + 1)

\* One field as the writer writes it; an empty field that is the only one of
\* its row is quoted too.
FormatFieldMutant(field, only) == field
FormatField(field, only) ==
    IF NeedsQuote(field) \/ (field = "" /\ only)
    THEN Quote \o DoubleQuotesFrom(field, 1) \o Quote
    ELSE field

RECURSIVE JoinFields(_, _)
JoinFields(fields, only) ==
    IF fields = <<>> THEN ""
    ELSE IF Len(fields) = 1 THEN FormatField(fields[1], only)
    ELSE FormatField(fields[1], only) \o Comma \o JoinFields(Tail(fields), only)

\* writer.writerow: the fields, delimited, and the line terminator '\r\n'
FormatRow(fields) == JoinFields(fields, Len(fields) = 1) \o CR \o LF

\* DictWriter: rowdict.get(key, restval) for key in fieldnames, restval ''
RowFields(record, fieldnames) ==
    [j \in 1..Len(fieldnames) |->
        IF fieldnames[j] \in DOMAIN record THEN record[fieldnames[j]] ELSE ""]

RECURSIVE FormatRows(_, _)
FormatRows(records, fieldnames) ==
    IF records = <<>> THEN ""
    ELSE FormatRow(RowFields(Head(records), fieldnames))
         \o FormatRows(Tail(records), fieldnames)

\* writer.writeheader(); writer.writerows(self.extracted_data)
CsvText(fieldnames, records) ==
    FormatRow(fieldnames) \o FormatRows(records, fieldnames)

\* csv.reader on the text of the file (opened with newline=''): the rows, a
\* blank line giving the row <<>>.  state is the state of the parser, field
\* and row what it has collected of the current field and row.
RECURSIVE Scan(_, _, _, _, _, _)
Scan(text, i, state, field, row, rows) ==
    IF i > Len(text)
    THEN IF state = "START_RECORD" THEN rows ELSE Append(rows, Append(row, field))
    ELSE
    LET c == CharAt(text, i)
        \* the index after the line end that starts at i
        afterEol == IF c = CR /\ i < Len(text) /\ CharAt(text, i + 1) = LF
                    THEN i + 2 ELSE i + 1
    IN CASE state = "START_RECORD" /\ c \in {CR, LF} ->
                Scan(text, afterEol, "START_RECORD", "", <<>>, Append(rows, <<>>))
         [] state \in {"START_RECORD", "START_FIELD"} /\ c \in {CR, LF} ->
                Scan(text, afterEol, "START_RECORD", "", <<>>,
                     Append(rows, Append(row, "")))
         [] state \in {"START_RECORD", "START_FIELD"} /\ c = Quote ->
                Scan(text, i + 1, "IN_QUOTED_FIELD", "", row, rows)
         [] state \in {"START_RECORD", "START_FIELD"} /\ c = Comma ->
                Scan(text, i + 1, "START_FIELD", "", Append(row, ""), rows)
         [] state \in {"START_RECORD", "START_FIELD"} /\ c \notin {CR, LF, Quote, Comma} ->
                Scan(text, i + 1, "IN_FIELD", c, row, rows)
         [] state \in {"IN_FIELD", "QUOTE_IN_QUOTED_FIELD"} /\ c \in {CR, LF} ->
                Scan(text, afterEol, "START_RECORD", "", <<>>,
                     Append(rows, Append(row, field)))
         [] state \in {"IN_FIELD", "QUOTE_IN_QUOTED_FIELD"} /\ c = Comma ->
                Scan(text, i + 1, "START_FIELD", "", Append(row, field), rows)
         [] state = "IN_FIELD" /\ c \notin {CR, LF, Comma} ->
                Scan(text, i + 1, "IN_FIELD", field \o c, row, rows)
         [] state = "IN_QUOTED_FIELD" /\ c = Quote ->
                Scan(text, i + 1, "QUOTE_IN_QUOTED_FIELD", field, row, rows)
         [] state = "IN_QUOTED_FIELD" /\ c # Quote ->
                Scan(text, i + 1, "IN_QUOTED_FIELD", field \o c, row, rows)
         [] state = "QUOTE_IN_QUOTED_FIELD" /\ c = Quote ->
                Scan(text, i + 1, "IN_QUOTED_FIELD", field \o Quote, row, rows)
         [] state = "QUOTE_IN_QUOTED_FIELD" /\ c \notin {CR, LF, Comma, Quote} ->
                Scan(text, i + 1, "IN_FIELD", field \o c, row, rows)

ReadRows(text) == Scan(text, 1, "START_RECORD", "", <<>>, <<>>)

\* dict(zip(fieldnames, row)); a row of the writer has len(fieldnames) fields
Zip(fieldnames, row) ==
    LET n == Min(Len(fieldnames), Len(row))
    IN [k \in {fieldnames[j] : j \in 1..n} |->
            row[CHOOSE j \in 1..n :
                    fieldnames[j] = k /\ \A l \in (j + 1)..n : fieldnames[l] # k]]

\* csv.DictReader: the first row holds the fieldnames, blank rows are skipped
DictReader(text) ==
    LET rows == ReadRows(text)
    IN IF rows = <<>> THEN <<>>
       ELSE LET data == SelectSeq(Tail(rows), LAMBDA row : row # <<>>)
            IN [i \in 1..Len(data) |-> Zip(Head(rows), data[i])]

(***************************************************************************)
(* The header row of the exporters.                                        *)
(***************************************************************************)
\* the upper-case letter of each lower-case letter
UpperTable ==
    [c \in {CharAt(LowerCase, i) : i \in 1..Len(LowerCase)} |->
        CharAt(UpperCase, IndexOf(c, LowerCase))]

UpperChar(c) == IF c \in DOMAIN UpperTable THEN UpperTable[c] ELSE c

IsCased(c) == c \in DOMAIN UpperTable \/ c \in DOMAIN LowerTable

\* fieldname.replace('_', ' ')
RECURSIVE ReplaceFrom(_, _, _, _)
ReplaceFrom(s, i, old, new) ==
    IF i > Len(s) THEN ""
    ELSE (IF CharAt(s, i) = old THEN new ELSE CharAt(s, i))
         \o ReplaceFrom(s, i + 1, old, new)

Replace(s, old, new) == ReplaceFrom(s, 1, old, new)

\* str.title(): a letter that follows a letter is lower-cased, any other
\* letter is upper-cased
RECURSIVE TitleFrom(_, _, _)
TitleFrom(s, i, previous_is_cased) ==
    IF i > Len(s) THEN ""
    ELSE LET c == CharAt(s, i)
         IN (IF previous_is_cased THEN LowerChar(c) ELSE UpperChar(c))
            \o TitleFrom(s, i + 1, IsCased(c))

Title(s) == TitleFrom(s, 1, FALSE)

\* export_to_xlsx: cell.value = fieldname.replace('_', ' ').title()
HeaderLabel(fieldname) == Title(Replace(fieldname, "_", " "))

\* export_to_xlsx: the cells of row 1
XlsxHeader(fieldnames) == [j \in 1..Len(fieldnames) |-> HeaderLabel(fieldnames[j])]

(***************************************************************************)
(* The export actions.                                                     *)
(***************************************************************************)
\* record.get(fieldname, '') for every row and column of the sheet
SheetCells(fieldnames, records) ==
    [i \in 1..Len(records) |-> RowFields(records[i], fieldnames)]

\* export_to_csv(filename)
ExportToCsv ==
    /\ call.op = "pending"
    /\ IF extracted_data = <<>>
       THEN \* "No data to export"
            call' = [op |-> "export_to_csv", ret |-> None]
       ELSE LET fieldnames == CsvFieldnames(AllKeys(extracted_data))
            IN call' = [op |-> "export_to_csv", ret |-> Some("filename"),
                        fieldnames |-> fieldnames,
                        file |-> CsvText(fieldnames, extracted_data)]
    /\ UNCHANGED <<include_types, exclude_types, extraction_options, trials_data,
                   extracted_data, pc, max_results, page_token, requests>>
    /\ UNCHANGED appvars

\* export_to_xlsx(filename, column_order) on the working set: what it
\* returns and writes
XlsxExport(column_order, openpyxl_installed) ==
    IF ~openpyxl_installed \/ extracted_data = <<>>
    THEN [op |-> "export_to_xlsx", column_order |-> column_order, ret |-> None]
    ELSE LET fieldnames == XlsxFieldnames(AllKeys(extracted_data), column_order)
         IN [op |-> "export_to_xlsx", column_order |-> column_order,
             ret |-> Some("filename"),
             fieldnames |-> fieldnames,
             header |-> XlsxHeader(fieldnames),
             cells |-> SheetCells(fieldnames, extracted_data)]

\* export_to_xlsx(filename, column_order); openpyxl may not be installed
ExportToXlsx ==
    /\ call.op = "pending"
    /\ \E openpyxl_installed \in BOOLEAN :
          call' = XlsxExport(call.column_order, openpyxl_installed)
    /\ UNCHANGED <<include_types, exclude_types, extraction_options, trials_data,
                   extracted_data, pc, max_results, page_token, requests>>
    /\ UNCHANGED appvars

\* the sequences of at most n elements of S
RECURSIVE SeqsUpTo(_, _)
SeqsUpTo(S, n) ==
    IF n = 0 THEN {<<>>}
    ELSE LET shorter == SeqsUpTo(S, n - 1)
         IN shorter \cup {Append(q, x) : q \in {y \in shorter : Len(y) = n - 1},
                                          x \in S}

\* The key sets of the extracted records that are exported: with and without
\* the priority fields, with keys that sort before and after them.
ExportKeySets ==
    {{}, {"a"}, {"a", "b"}, {"b", "c"}, {"Zeta", "_x", "ab"},
     {"nct_id", "title", "status"},
     {"nct_id", "title", "status", "lead_sponsor", "a"},
     {"status", "lead_sponsor", "lead_sponsor_type", "collaborators"}}

ExportRows == {[k \in K |-> "v"] : K \in ExportKeySets}

\* The column_order arguments: None and lists of names, one of which ("zzz")
\* is no column of the data.
ColumnOrders ==
    {None} \cup {Some(o) : o \in SeqsUpTo({"title", "a", "zzz"}, MaxOrder)}

InitWorkingSet(records, column_order) ==
    /\ include_types = None
    /\ exclude_types = {}
    /\ extraction_options = {"sponsors"}
    /\ trials_data = <<>>
    /\ extracted_data = records
    /\ pc = "idle"
    /\ max_results = 0
    /\ page_token = None
    /\ requests = <<>>
    /\ call = [op |-> "pending", column_order |-> column_order]
    /\ NoApp

\* A working set of extracted records, and the column order of the export.
InitExport ==
    \E records \in SeqsUpTo(ExportRows, MaxRows), column_order \in ColumnOrders :
        InitWorkingSet(records, column_order)

NextExport == ExportToCsv \/ ExportToXlsx

SpecExport == InitExport /\ [][NextExport]_vars

\* The values of the records written to CSV: plain, empty, and holding the
\* delimiter, the quote character and a line break.
CsvValues == {"", "x", "y,z", "\"q", "l\nm"}

CsvRows == UNION {[K -> CsvValues] : K \in SUBSET {"nct_id", "a"}}

\* A working set of flat records with string values.
InitCsv ==
    \E records \in SeqsUpTo(CsvRows, MaxRows) : InitWorkingSet(records, None)

NextCsv == ExportToCsv

SpecCsv == InitCsv /\ [][NextCsv]_vars

(***************************************************************************)
(* Claims about the exporters, checked under SpecExport and SpecCsv.       *)
(***************************************************************************)
Exported(op) == call.op = op /\ call.ret # None

\* the export ran without an explicit column order
DefaultOrdered ==
    \/ Exported("export_to_csv")
    \/ Exported("export_to_xlsx") /\ call.column_order = None

PriorityColumns == {"nct_id", "title", "status", "lead_sponsor"}

\* nct_id = 1, title = 2, status = 3, lead_sponsor = 4
PriorityRank(column) ==
    CASE column = "nct_id" -> 1
      [] column = "title" -> 2
      [] column = "status" -> 3
      [] column = "lead_sponsor" -> 4

\* column x stands before column y in the order of the claim
ColumnBefore(x, y) ==
    IF x \in PriorityColumns /\ y \in PriorityColumns
    THEN PriorityRank(x) < PriorityRank(y)
    ELSE IF x \in PriorityColumns THEN TRUE
    ELSE IF y \in PriorityColumns THEN FALSE
    ELSE StrLess(x, y)

\* every key of the union of the records' keys occurs exactly once in f
EachKeyOnce(f) ==
    /\ Range(f) = AllKeys(extracted_data)
    /\ \A i, j \in 1..Len(f) : f[i] = f[j] => i = j

\* C8: with no explicit column order, the resolved columns are those of
\* nct_id, title, status, lead_sponsor that occur in the data, in that
\* order, followed by the other keys in lexicographic order, for
\* export_to_csv and export_to_xlsx alike.
C8_DefaultColumnOrder ==
    DefaultOrdered =>
        /\ EachKeyOnce(call.fieldnames)
        /\ \A i, j \in 1..Len(call.fieldnames) :
              i < j => ColumnBefore(call.fieldnames[i], call.fieldnames[j])

\* records with different key sets were exported by export_to_csv, with all
\* four priority fields and other columns among the union of their keys
C8_Witness ==
    /\ Exported("export_to_csv")
    /\ Len(extracted_data) = 2
    /\ DOMAIN extracted_data[1] # DOMAIN extracted_data[2]
    /\ PriorityColumns \subseteq AllKeys(extracted_data)
    /\ Cardinality(AllKeys(extracted_data) \ PriorityColumns) >= 2
    /\ SubSeq(call.fieldnames, 1, 4) = <<"nct_id", "title", "status", "lead_sponsor">>

\* C9: with an explicit column order, repeated and absent names included,
\* the resolved columns of export_to_xlsx are the explicit-order columns
\* that occur in the data, in the explicit order, followed by the other
\* columns in lexicographic order, and every key occurs exactly once.
C9_ExplicitColumnOrder ==
    (Exported("export_to_xlsx") /\ call.column_order # None
        /\ call.column_order # Some(<<>>)) =>
        LET given == Only(call.column_order[1], AllKeys(extracted_data))
        IN /\ SubSeq(call.fieldnames, 1, Len(given)) = given
           /\ \A i, j \in (Len(given) + 1)..Len(call.fieldnames) :
                 i < j => StrLess(call.fieldnames[i], call.fieldnames[j])
           /\ EachKeyOnce(call.fieldnames)

\* the record r with every column of keys, '' for the columns it lacks
Filled(r, keys) == [k \in keys |-> IF k \in DOMAIN r THEN r[k] ELSE ""]

\* C10 as stated: the records parsed back from the file written by
\* export_to_csv are the records that were written (records with different
\* key sets included, each with at least one key): same order, same key
\* sets, same values.
C10_RoundTrip ==
    (Exported("export_to_csv")
        /\ \A i \in 1..Len(extracted_data) : DOMAIN extracted_data[i] # {})
        => DictReader(call.file) = extracted_data

\* C10 as amended: when the records have a key at all, the records parsed
\* back are the records written, in order, each with every column of the
\* union of the key sets: its own value for a key it has, '' for a key it
\* lacks (so records that all have the same key set are reproduced exactly).
C10_RoundTripFilled ==
    (Exported("export_to_csv") /\ AllKeys(extracted_data) # {}) =>
        DictReader(call.file) =
            [i \in 1..Len(extracted_data) |->
                Filled(extracted_data[i], AllKeys(extracted_data))]

\* two records with the same two keys, values with a delimiter, a quote or a
\* line break among them, were written and parsed back unchanged
C10_Witness ==
    /\ Exported("export_to_csv")
    /\ Len(extracted_data) = 2
    /\ \A i \in 1..2 : DOMAIN extracted_data[i] = {"nct_id", "a"}
    /\ \E i \in 1..2 : NeedsQuote(extracted_data[i]["a"])
    /\ \E i \in 1..2 : NeedsQuote(extracted_data[i]["nct_id"])
    /\ DictReader(call.file) = extracted_data

\* the cells of the first row of a CSV file
HeaderRow(text) == Head(ReadRows(text))

\* C11: the header cell of every column of the file written by export_to_csv
\* is the label of the field name ('_' replaced by a space, title-cased),
\* the label export_to_xlsx writes for that column.
C11_CsvHeaderLabels ==
    Exported("export_to_csv") => HeaderRow(call.file) = XlsxHeader(call.fieldnames)

(***************************************************************************)
(* The web layer (src/app.py): parsing of a search request.                *)
(*                                                                         *)
(* A JSON object is a function from its keys; request.json is None or      *)
(* <<object>>.                                                             *)
(***************************************************************************)
\* d.get(key, default)
Get(d, key, default) == IF key \in DOMAIN d THEN d[key] ELSE default

\* the characters str.strip() removes
Whitespace == {" ", "\t", "\n", "\r", "\f"}

\* s.strip()
Strip(s) ==
    LET kept == {i \in 1..Len(s) : CharAt(s, i) \notin Whitespace}
    IN IF kept = {} THEN ""
       ELSE SubSeq(s, CHOOSE i \in kept : \A j \in kept : i <= j,
                      CHOOSE i \in kept : \A j \in kept : j <= i)

\* s.split(sep), sep one character; piece is the piece being collected
RECURSIVE SplitFrom(_, _, _, _)
SplitFrom(s, i, sep, piece) ==
    IF i > Len(s) THEN <<piece>>
    ELSE IF CharAt(s, i) = sep THEN <<piece>> \o SplitFrom(s, i + 1, sep, "")
    ELSE SplitFrom(s, i + 1, sep, piece \o CharAt(s, i))

Split(s, sep) == SplitFrom(s, 1, sep, "")

\* sep.join(parts)
RECURSIVE Join(_, _)
Join(parts, sep) ==
    IF parts = <<>> THEN ""
    ELSE IF Len(parts) = 1 THEN parts[1]
    ELSE parts[1] \o sep \o Join(Tail(parts), sep)

\* [k.strip() for k in keywords_raw.split(',') if k.strip()]
ParseKeywords(keywords_raw) ==
    LET pieces == Split(keywords_raw, ",")
        stripped == [j \in 1..Len(pieces) |-> Strip(pieces[j])]
    IN SelectSeq(stripped, LAMBDA k : k # "")

Digits == "0123456789"

IsDigit(c) == \E d \in 1..Len(Digits) : CharAt(Digits, d) = c

\* int(s) of a string of digits
RECURSIVE DigitsValue(_, _)
DigitsValue(s, n) ==
    IF n = 0 THEN 0
    ELSE 10 * DigitsValue(s, n - 1) + (IndexOf(CharAt(s, n), Digits) - 1)

\* int(max_results_raw): None when it raises ValueError
ParseInt(raw) ==
    LET s == Strip(raw)
    IN IF s # "" /\ \A i \in 1..Len(s) : IsDigit(CharAt(s, i))
       THEN Some(DigitsValue(s, Len(s)))
       ELSE None

\* max_results = 10000 if max_results_raw == 'ALL' else int(max_results_raw)
ParseMaxResults(raw) == IF raw = "ALL" THEN Some(10000) ELSE ParseInt(raw)

\* build_query_term(keywords, phases)
build_query_term(keywords, phases) ==
    LET quoted_keywords == [j \in 1..Len(keywords) |-> "\"" \o keywords[j] \o "\""]
        keyword_part == IF Len(keywords) = 1 THEN keywords[1]
                        ELSE "(" \o Join(quoted_keywords, " OR ") \o ")"
    IN IF phases = <<>> THEN keyword_part
       ELSE keyword_part \o " AND " \o "AREA[Phase](" \o Join(phases, " OR ") \o ")"

(***************************************************************************)
(* The web layer: the search and export handlers.  Each request is served  *)
(* by a thread of the server; a step of a handler is a stretch of its code *)
(* between two accesses to what the threads share: the module-level name   *)
(* prospector, the instances and the list objects their fields refer to.   *)
(***************************************************************************)
\* the state of the class used on its own
libvars == <<include_types, exclude_types, extraction_options, trials_data,
             extracted_data, pc, max_results, page_token, requests, call>>

\* a request that has arrived, request.json being body; the other fields are
\* the locals of its handler
NewHandler(route, body) ==
    [route |-> route, pc |-> "start", body |-> body, keywords |-> <<>>,
     statuses |-> <<>>, phases |-> <<>>, max_results |-> 0, org_types |-> <<>>,
     data_extractions |-> <<>>, self |-> 0, query_term |-> "", page_token |-> None,
     sent |-> <<>>, delivered |-> 0, trials |-> 0, iterated |-> 0, i |-> 0,
     nct_id_bound |-> FALSE, extracted_data |-> 0, checked |-> 0,
     fieldnames |-> <<>>, response |-> None]

\* handler h serves a request of the route and is at position pc of its code
At(h, route, position) ==
    /\ h \in DOMAIN handlers
    /\ handlers[h].route = route
    /\ handlers[h].pc = position

\* return jsonify(...), status
Respond(r, status, payload) ==
    [r EXCEPT !.pc = "done", !.response = Some([status |-> status, body |-> payload])]

\* except Exception as e: return jsonify({'error': str(e)}), 500
RespondError(r, exception) == Respond(r, 500, [error |-> exception])

\* ClinicalTrialsProspector(include_types, exclude_types, extraction_options)
\* with its two lists at positions trials and trials + 1 of lists; an
\* instance and a list object are known by their position in instances and
\* in lists
NewInstance(include, exclude, options, trials) ==
    [include_types |-> include,
     exclude_types |-> IF exclude = None \/ exclude = Some({}) THEN {} ELSE exclude[1],
     extraction_options |->
        IF options = None \/ options = Some({}) THEN {"sponsors"} ELSE options[1],
     trials_data |-> trials, extracted_data |-> trials + 1]

\* The JSON bodies of the search requests: none, no keywords, keywords that
\* are blank or only separators, and searches with one and two keywords, an
\* extraction option that is no key of DATA_EXTRACTION_OPTIONS, and
\* maxResults that is a number, 'ALL' or no number.
SearchBodies ==
    {None, Some(<<>>), Some([keywords |-> "  "]), Some([keywords |-> " , "]),
     Some([keywords |-> "flu"]),
     Some([keywords |-> "flu, rsv", statuses |-> <<"RECRUITING">>,
           phases |-> <<"PHASE2">>, maxResults |-> "1",
           organizationTypes |-> <<"company", "university">>,
           dataExtractions |-> <<"sponsors", "design">>]),
     Some([keywords |-> "flu", dataExtractions |-> <<"sponsor">>]),
     Some([keywords |-> "flu", dataExtractions |-> <<>>, maxResults |-> "2"]),
     Some([keywords |-> "flu", maxResults |-> "abc"]),
     Some([keywords |-> " rsv ,", maxResults |-> "ALL",
           dataExtractions |-> <<"design", "timeline">>])}

\* search, lines 38-68: the request is parsed
SearchParse(h) ==
    /\ At(h, "search", "start")
    /\ LET r == handlers[h]
           body == r.body
       IN handlers' = [handlers EXCEPT ![h] =
            IF body = None
            THEN \* data.get on None
                 RespondError(r, "AttributeError")
            ELSE LET data == body[1]
                     keywords_raw == Strip(Get(data, "keywords", ""))
                     max_results_parsed == ParseMaxResults(Get(data, "maxResults", "500"))
                 IN IF keywords_raw = ""
                    THEN Respond(r, 400, [error |-> "Please provide at least one keyword"])
                    ELSE IF max_results_parsed = None
                    THEN RespondError(r, "ValueError")
                    ELSE [r EXCEPT !.pc = "construct",
                             !.keywords = ParseKeywords(keywords_raw),
                             !.statuses = Get(data, "statuses", <<>>),
                             !.phases = Get(data, "phases", <<>>),
                             !.max_results = max_results_parsed[1],
                             !.org_types = Get(data, "organizationTypes", <<"company">>),
                             !.data_extractions =
                                 Get(data, "dataExtractions", <<"sponsors">>)]]
    /\ UNCHANGED <<prospector, instances, lists, libvars>>

\* search, lines 71-75: a new instance is bound to the module-level name
SearchConstruct(h) ==
    /\ At(h, "search", "construct")
    /\ instances' = Append(instances,
          NewInstance(Some(Range(handlers[h].org_types)), None,
                      Some(Range(handlers[h].data_extractions)), Len(lists) + 1))
    /\ lists' = lists \o << <<>>, <<>> >>
    /\ prospector' = Len(instances) + 1
    /\ handlers' = [handlers EXCEPT ![h].pc = "fetch"]
    /\ UNCHANGED libvars

\* search, line 78: prospector.fetch_trials(...), up to its loop
SearchFetchCall(h) ==
    /\ At(h, "search", "fetch")
    /\ lists' = Append(lists, <<>>)
    /\ instances' = [instances EXCEPT ![prospector].trials_data = Len(lists) + 1]
    /\ handlers' = [handlers EXCEPT ![h] =
          [@ EXCEPT !.pc = "loop", !.self = prospector, !.page_token = None,
                    !.query_term = build_query_term(handlers[h].keywords,
                                                    handlers[h].phases)]]
    /\ UNCHANGED <<prospector, libvars>>

\* fetch_trials returns self.trials_data to search
FetchReturned(r) == [r EXCEPT !.pc = "extract", !.trials = instances[r.self].trials_data]

\* fetch_trials, lines 190-206: the loop test, and the page request is sent
SearchRequest(h) ==
    /\ At(h, "search", "loop")
    /\ LET r == handlers[h]
           len == Len(lists[instances[r.self].trials_data])
       IN handlers' = [handlers EXCEPT ![h] =
            IF ~LoopCond(len, r.max_results)
            THEN FetchReturned(r)
            ELSE [r EXCEPT !.pc = "waiting",
                     !.sent = Append(@,
                        [query_term |-> r.query_term,
                         pageSize |-> PageSize(r.max_results, len),
                         overallStatus |-> IF r.statuses = <<>> THEN None
                                           ELSE Some(Join(r.statuses, ",")),
                         pageToken |-> r.page_token])]]
    /\ UNCHANGED <<prospector, instances, lists, libvars>>

\* The studies the registry holds for the search of handler h: two for the
\* first search, one for every other.
RunStudies(h) ==
    LET first == [nct |-> <<"NCT11", "NCT21", "NCT31">>[h], malformed |-> "none",
                  lead |-> "Acme"]
        second == [nct |-> <<"NCT12", "NCT22", "NCT32">>[h], malformed |-> "none",
                   lead |-> "Zeta"]
    IN IF h = 1 THEN <<first, second>> ELSE <<first>>

\* The answers to a page request of handler h that has been given
\* `delivered` studies: the next study and a token while more remain, then
\* an empty page; or a transport error.
RegistryAnswers(h, delivered) ==
    {[outcome |-> "ok",
      studies |-> IF delivered < Len(RunStudies(h))
                  THEN <<RunStudies(h)[delivered + 1]>> ELSE <<>>,
      nextPageToken |-> IF delivered + 1 < Len(RunStudies(h))
                        THEN Some(delivered + 1) ELSE None],
     [outcome |-> "ConnectionError", studies |-> <<>>, nextPageToken |-> None]}

\* fetch_trials, lines 207-225: the answer to the page request is handled
SearchResponse(h) ==
    /\ At(h, "search", "waiting")
    /\ \E a \in RegistryAnswers(h, handlers[h].delivered) :
        LET r == handlers[h]
            data == instances[r.self].trials_data
        IN IF a.outcome # "ok"
           THEN /\ handlers' = [handlers EXCEPT ![h] =
                      IF Caught(a.outcome) THEN FetchReturned(r)
                      ELSE RespondError(r, a.outcome)]
                /\ UNCHANGED lists
           ELSE IF a.studies = <<>>
           THEN /\ handlers' = [handlers EXCEPT ![h] = FetchReturned(r)]
                /\ UNCHANGED lists
           ELSE /\ lists' = [lists EXCEPT ![data] = Extend(@, a.studies)]
                /\ handlers' = [handlers EXCEPT ![h] =
                      LET got == [r EXCEPT !.delivered = @ + Len(a.studies),
                                           !.page_token = a.nextPageToken]
                      IN IF a.nextPageToken = None THEN FetchReturned(got)
                         ELSE [got EXCEPT !.pc = "loop"]]
    /\ UNCHANGED <<prospector, instances, libvars>>

\* search, line 86: prospector.extract_data(), up to its loop
SearchExtractCall(h) ==
    /\ At(h, "search", "extract")
    /\ lists' = Append(lists, <<>>)
    /\ instances' = [instances EXCEPT ![prospector].extracted_data = Len(lists) + 1]
    /\ handlers' = [handlers EXCEPT ![h] =
          [@ EXCEPT !.pc = "study", !.self = prospector,
                    !.iterated = instances[prospector].trials_data,
                    !.i = 1, !.nct_id_bound = FALSE]]
    /\ UNCHANGED <<prospector, libvars>>

\* extract_data, lines 242-299: one iteration of the loop over trials, or
\* its end and the return of self.extracted_data
SearchExtractStudy(h) ==
    /\ At(h, "search", "study")
    /\ LET r == handlers[h]
           trials == lists[r.iterated]
           me == instances[r.self]
       IN IF r.i > Len(trials)
          THEN /\ handlers' = [handlers EXCEPT ![h] =
                     [r EXCEPT !.pc = "respond", !.extracted_data = me.extracted_data]]
               /\ UNCHANGED lists
          ELSE LET study == trials[r.i]
               IN IF RaisesBeforeNctId(study)
                  THEN /\ handlers' = [handlers EXCEPT ![h] =
                             IF HandlerRaises(r.nct_id_bound)
                             THEN RespondError(r, "UnboundLocalError")
                             ELSE [r EXCEPT !.i = @ + 1]]
                       /\ UNCHANGED lists
                  ELSE IF RaisesAfterNctId(study, me.extraction_options)
                  THEN /\ handlers' = [handlers EXCEPT ![h] =
                             [r EXCEPT !.i = @ + 1, !.nct_id_bound = TRUE]]
                       /\ UNCHANGED lists
                  ELSE LET extracted == Extracted(study, me.extraction_options)
                       IN /\ handlers' = [handlers EXCEPT ![h] =
                                [r EXCEPT !.i = @ + 1, !.nct_id_bound = TRUE]]
                          /\ lists' =
                                IF Retained(extracted, me.extraction_options,
                                            me.include_types, me.exclude_types)
                                THEN [lists EXCEPT ![me.extracted_data] =
                                         Append(@, extracted)]
                                ELSE lists
    /\ UNCHANGED <<prospector, instances, libvars>>

\* the items of extracted_data that have a lead sponsor: their lead sponsors
LeadSponsors(rows) ==
    {LeadSponsorOf(rows[k]) : k \in 1..Len(rows)} \ {""}

\* search, lines 88-123: the statistics and the preview are returned
SearchRespond(h) ==
    /\ At(h, "search", "respond")
    /\ LET r == handlers[h]
           trials == lists[r.trials]
           rows == lists[r.extracted_data]
       IN handlers' = [handlers EXCEPT ![h] =
            Respond(r, 200,
                [stats |-> [totalTrials |-> Len(trials),
                            extractedRecords |-> Len(rows),
                            uniqueOrganizations |->
                                IF "sponsors" \in Range(r.data_extractions)
                                THEN Cardinality(LeadSponsors(rows)) ELSE 0,
                            dataFieldsExtracted |-> Len(r.data_extractions)],
                 preview |-> SubSeq(rows, 1, Min(100, Len(rows))),
                 dataFields |-> r.data_extractions])]
    /\ UNCHANGED <<prospector, instances, lists, libvars>>

\* export_csv, lines 136-137: is there data to export
ExportCheck(h) ==
    /\ At(h, "export", "start")
    /\ handlers' = [handlers EXCEPT ![h] =
          IF lists[instances[prospector].extracted_data] = <<>>
          THEN Respond(@, 400,
                       [error |-> "No data to export. Please run a search first."])
          ELSE [@ EXCEPT !.pc = "export", !.checked = prospector]]
    /\ UNCHANGED <<prospector, instances, lists, libvars>>

\* export_csv, line 140: prospector.export_to_xlsx(), up to the columns
ExportCall(h) ==
    /\ At(h, "export", "export")
    /\ \E openpyxl_installed \in BOOLEAN :
        LET rows == lists[instances[prospector].extracted_data]
        IN handlers' = [handlers EXCEPT ![h] =
            IF ~openpyxl_installed \/ rows = <<>>
            THEN \* export_to_xlsx returns None
                 Respond([@ EXCEPT !.self = prospector], 500,
                         [error |-> "Failed to generate Excel file"])
            ELSE [@ EXCEPT !.pc = "write", !.self = prospector,
                           !.fieldnames = XlsxFieldnames(AllKeys(rows), None)]]
    /\ UNCHANGED <<prospector, instances, lists, libvars>>

\* export_to_xlsx, lines 539-586, and export_csv, lines 142-150: the sheet is
\* written and sent
ExportWrite(h) ==
    /\ At(h, "export", "write")
    /\ LET r == handlers[h]
           rows == lists[instances[r.self].extracted_data]
       IN handlers' = [handlers EXCEPT ![h] =
            Respond(r, 200, [header |-> XlsxHeader(r.fieldnames),
                             cells |-> SheetCells(r.fieldnames, rows)])]
    /\ UNCHANGED <<prospector, instances, lists, libvars>>

\* app.py has been imported (prospector = ClinicalTrialsProspector()) and
\* the requests have arrived.
InitHandlers(arrived) ==
    /\ include_types = None
    /\ exclude_types = {}
    /\ extraction_options = {"sponsors"}
    /\ trials_data = <<>>
    /\ extracted_data = <<>>
    /\ pc = "idle"
    /\ max_results = 0
    /\ page_token = None
    /\ requests = <<>>
    /\ call = [op |-> "none"]
    /\ instances = <<NewInstance(None, None, None, 1)>>
    /\ lists = << <<>>, <<>> >>
    /\ prospector = 1
    /\ handlers = arrived

\* One search request, served on its own.
InitSearch ==
    \E body \in SearchBodies : InitHandlers(<<NewHandler("search", body)>>)

\* The bodies of the search requests that are served together.
AppBodies ==
    {Some([keywords |-> "flu"]),
     Some([keywords |-> "flu, rsv", statuses |-> <<"RECRUITING">>,
           phases |-> <<"PHASE2">>, maxResults |-> "1",
           organizationTypes |-> <<"company", "university">>,
           dataExtractions |-> <<"sponsors", "design">>])}

\* Up to MaxHandlers requests served together, up to MaxSearches of them
\* searches; the searches are given the first handlers.
Arrivals ==
    {s \o e : s \in SeqsUpTo({NewHandler("search", body) : body \in AppBodies},
                             MaxSearches),
              e \in SeqsUpTo({NewHandler("export", None)}, MaxHandlers)}
        \cap SeqsUpTo({NewHandler("search", body) : body \in AppBodies}
                         \cup {NewHandler("export", None)}, MaxHandlers)

InitApp == \E arrived \in Arrivals : InitHandlers(arrived)

NextApp ==
    \E h \in 1..MaxHandlers :
        \/ SearchParse(h)
        \/ SearchConstruct(h)
        \/ SearchFetchCall(h)
        \/ SearchRequest(h)
        \/ SearchResponse(h)
        \/ SearchExtractCall(h)
        \/ SearchExtractStudy(h)
        \/ SearchRespond(h)
        \/ ExportCheck(h)
        \/ ExportCall(h)
        \/ ExportWrite(h)

SpecApp == InitApp /\ [][NextApp]_vars

NextSearch ==
    \/ SearchParse(1)
    \/ SearchConstruct(1)
    \/ SearchFetchCall(1)
    \/ SearchRequest(1)
    \/ SearchResponse(1)
    \/ SearchExtractCall(1)
    \/ SearchExtractStudy(1)
    \/ SearchRespond(1)

SpecSearch == InitSearch /\ [][NextSearch]_vars

(***************************************************************************)
(* Claims about the web layer, checked under SpecApp.                      *)
(***************************************************************************)
Searches == {h \in DOMAIN handlers : handlers[h].route = "search"}
Exports == {h \in DOMAIN handlers : handlers[h].route = "export"}

\* the request of handler h has been read
Arrived(h) == handlers[h].pc # "start"

Answered(h) == handlers[h].pc = "done"

StatusOf(h) == handlers[h].response[1].status

\* the keywords of the request body are missing, or no keyword is left of
\* them after splitting on commas and trimming
NoKeyword(body) ==
    \/ "keywords" \notin DOMAIN body
    \/ \A j \in 1..Len(Split(body["keywords"], ",")) :
          Strip(Split(body["keywords"], ",")[j]) = ""

\* C12: a search whose keyword list is empty or missing (" , " included) is
\* answered with the validation error (status 400), and no page request is
\* sent to the registry for it.
C12_EmptyKeywordsRejected ==
    \A h \in Searches :
        (Arrived(h) /\ handlers[h].body # None /\ NoKeyword(handlers[h].body[1])) =>
            /\ handlers[h].sent = <<>>
            /\ Answered(h) => StatusOf(h) = 400

\* the keys of DATA_EXTRACTION_OPTIONS
RegistryNames == {"sponsors", "investigators", "locations", "interventions",
                  "conditions", "outcomes", "design", "eligibility", "contacts",
                  "timeline"}

\* the extraction options of the request body hold a key that is no registry
\* name
UnknownOption(body) ==
    \E j \in 1..Len(Get(body, "dataExtractions", <<"sponsors">>)) :
        Get(body, "dataExtractions", <<"sponsors">>)[j] \notin RegistryNames

\* C13: a search whose extraction options hold a key that is none of the ten
\* registry names is answered with a validation error (status 400), and no
\* record is extracted for it.
C13_UnknownOptionRejected ==
    \A h \in Searches :
        (Arrived(h) /\ handlers[h].body # None /\ UnknownOption(handlers[h].body[1])) =>
            /\ Answered(h) => StatusOf(h) = 400
            /\ handlers[h].self # 0 =>
                  lists[instances[handlers[h].self].extracted_data] = <<>>

(***************************************************************************)
(* A session on one instance: fetch_trials, extract_data() on the fetched  *)
(* records and export_to_xlsx(), called one after the other in any order.  *)
(***************************************************************************)
\* The study the registry holds under an id: well-formed, the lead sponsor a
\* company.
StudyOf(id) == [nct |-> id, malformed |-> "none", lead |-> "Acme"]

\* fetch_trials with a small max_results
SessionFetch ==
    /\ FetchCall
    /\ max_results' \in 1..MaxTrials

\* extract_data(): trials is None, the records of self.trials_data are read
SessionExtract ==
    /\ pc # "loop"
    /\ LET trials == [i \in 1..Len(trials_data) |-> StudyOf(trials_data[i])]
           r == ExtractLoop(trials, <<>>, FALSE, extraction_options,
                            include_types, exclude_types)
       IN /\ extracted_data' = r.rows
          /\ call' = [op |-> "extract_data", trials |-> trials, outcome |-> r.outcome]
    /\ UNCHANGED <<include_types, exclude_types, extraction_options, trials_data,
                   pc, max_results, page_token, requests>>
    /\ UNCHANGED appvars

\* export_to_xlsx()
SessionExport ==
    /\ pc # "loop"
    /\ \E openpyxl_installed \in BOOLEAN :
          call' = XlsxExport(None, openpyxl_installed)
    /\ UNCHANGED <<include_types, exclude_types, extraction_options, trials_data,
                   extracted_data, pc, max_results, page_token, requests>>
    /\ UNCHANGED appvars

InitSession == InitFetch

NextSession ==
    SessionFetch \/ FetchReturn \/ FetchPage \/ SessionExtract \/ SessionExport

SpecSession == InitSession /\ [][NextSession]_vars

\* C14: when a new fetch_trials starts, no raw and no extracted record of
\* the earlier fetch remains in the working set, and an export made after the
\* fetch and before the next extract_data writes no rows.
C14_NewFetchDiscards ==
    [][/\ (pc # "loop" /\ pc' = "loop") =>
            (trials_data' = <<>> /\ extracted_data' = <<>>)
       /\ (call.op = "fetch_trials" /\ call'.op = "export_to_xlsx") =>
            call'.ret = None]_vars

\* C15: whatever pages the registry gives, pages that repeat a record of an
\* earlier page included, no two records of the list fetch_trials returns
\* have the same NCT id.
C15_Deduplicated ==
    (call.op = "fetch_trials" /\ call.outcome = "returned") =>
        \A i, j \in 1..Len(call.ret[1]) : call.ret[1][i] = call.ret[1][j] => i = j

\* the ids of the trials in the rows of the sheet that export h has sent
ExportedIds(h) ==
    LET r == handlers[h]
        cells == r.response[1].body.cells
    IN {cells[i][k] : i \in DOMAIN cells,
                      k \in {c \in DOMAIN r.fieldnames : r.fieldnames[c] = "nct_id"}}

\* the ids of the trials the registry holds for the run of search s
RunIds(s) == {RunStudies(s)[k].nct : k \in DOMAIN RunStudies(s)}

\* C17: under every interleaving of the search and export requests, the rows
\* a sent sheet holds all come from the extraction of one search run, and an
\* export that has passed the 'data present' check runs export_to_xlsx on
\* the instance it has checked, which still has rows then.
C17_RunOwnsWorkingSet ==
    \A h \in Exports :
        /\ (Answered(h) /\ StatusOf(h) = 200) =>
              \E s \in Searches : ExportedIds(h) \subseteq RunIds(s)
        /\ (handlers[h].checked # 0 /\ handlers[h].self # 0) =>
              /\ handlers[h].self = handlers[h].checked
              /\ lists[instances[handlers[h].checked].extracted_data] # <<>>

\* a sheet with the rows of two search runs has been sent
C17_MixedSheet ==
    \E h \in Exports :
        /\ Answered(h) /\ StatusOf(h) = 200
        /\ \A s \in Searches : ~(ExportedIds(h) \subseteq RunIds(s))

\* an export that saw data is answered 'Failed to generate Excel file' from
\* the empty working set of the instance a later search has bound
C17_CheckedThenEmpty ==
    \E h \in Exports :
        /\ Answered(h) /\ StatusOf(h) = 500
        /\ handlers[h].checked # 0
        /\ handlers[h].self # handlers[h].checked
        /\ lists[instances[handlers[h].self].extracted_data] = <<>>

(***************************************************************************)
(* The company roster.  No code of it is among the sources; it is modelled *)
(* from the specification: an aggregate per organization name (trimmed),   *)
(* created on the first included mention and updated on every later one.  *)
(* The label of an aggregate, a function of its category, is left out.     *)
(***************************************************************************)
\* the aggregate of an organization that has not been mentioned yet
NewAggregate(name) ==
    [name |-> name, category |-> get_organization_type(name),
     lead_count |-> 0, collab_count |-> 0, trial_count |-> 0, trial_ids |-> {}]

\* one included mention counted in the aggregate: lead_count or collab_count
\* by its role, trial_count always, and the trial id added to the id set
Count(aggregate, mention) ==
    [aggregate EXCEPT
        !.lead_count = IF mention.role = "lead" THEN @ + 1 ELSE @,
        !.collab_count = IF mention.role = "collaborator" THEN @ + 1 ELSE @,
        !.trial_count = @ + 1,
        !.trial_ids = @ \cup {mention.trial}]

\* a lead mention starts the aggregate anew
UpsertMutant(roster, mention) ==
    LET name == Strip(mention.organization)
    IN [n \in DOMAIN roster \cup {name} |->
          IF n # name THEN roster[n]
          ELSE Count(IF name \in DOMAIN roster /\ mention.role # "lead"
                     THEN roster[name] ELSE NewAggregate(name), mention)]
\* the upsert of an included mention into the roster, a function from the
\* names to their aggregates
Upsert(roster, mention) ==
    LET name == Strip(mention.organization)
    IN [n \in DOMAIN roster \cup {name} |->
          IF n # name THEN roster[n]
          ELSE Count(IF name \in DOMAIN roster
                     THEN roster[name] ELSE NewAggregate(name), mention)]

\* The included mentions: two organizations, one of them also written with
\* blanks around its name, in both roles, in two trials.
Mentions ==
    [organization : {"A", "B", " A "}, role : {"lead", "collaborator"},
     trial : {"NCT01", "NCT02"}]

\* The mentions of a run, in the order in which they are processed.
InitRoster ==
    /\ include_types = None
    /\ exclude_types = {}
    /\ extraction_options = {"sponsors"}
    /\ trials_data = <<>>
    /\ extracted_data = <<>>
    /\ pc = "idle"
    /\ max_results = 0
    /\ page_token = None
    /\ requests = <<>>
    /\ NoApp
    /\ \E mentions \in SeqsUpTo(Mentions, MaxMentions) :
          call = [op |-> "roster", mentions |-> mentions, pending |-> mentions,
                  roster |-> <<>>]

\* the next mention is processed
UpsertMention ==
    /\ call.op = "roster"
    /\ call.pending # <<>>
    /\ call' = [call EXCEPT !.pending = Tail(@),
                            !.roster = Upsert(@, Head(call.pending))]
    /\ UNCHANGED <<include_types, exclude_types, extraction_options, trials_data,
                   extracted_data, pc, max_results, page_token, requests>>
    /\ UNCHANGED appvars

NextRoster == UpsertMention

SpecRoster == InitRoster /\ [][NextRoster]_vars

\* the roster of the mentions processed in the order given
RECURSIVE RosterOf(_, _)
RosterOf(roster, mentions) ==
    IF mentions = <<>> THEN roster
    ELSE RosterOf(Upsert(roster, Head(mentions)), Tail(mentions))

\* the mentions in every order
Orders(mentions) ==
    {[i \in 1..Len(mentions) |-> mentions[p[i]]] :
        p \in Permutations(1..Len(mentions))}

\* the positions of the mentions of an organization, of one in a role
MentionsOf(mentions, name) ==
    {i \in 1..Len(mentions) : Strip(mentions[i].organization) = name}
MentionsAs(mentions, name, role) ==
    {i \in MentionsOf(mentions, name) : mentions[i].role = role}

\* C16: when all the mentions are processed, the roster is the one every
\* other order of the same mentions gives, and the aggregate of every
\* organization counts its lead mentions, its collaborator mentions and all
\* its mentions, and holds the ids of the trials that mention it.
C16_RosterCommutative ==
    (call.op = "roster" /\ call.pending = <<>>) =>
        /\ \A order \in Orders(call.mentions) : RosterOf(<<>>, order) = call.roster
        /\ DOMAIN call.roster =
              {Strip(call.mentions[i].organization) : i \in 1..Len(call.mentions)}
        /\ \A name \in DOMAIN call.roster :
              LET aggregate == call.roster[name]
              IN /\ aggregate.lead_count =
                       Cardinality(MentionsAs(call.mentions, name, "lead"))
                 /\ aggregate.collab_count =
                       Cardinality(MentionsAs(call.mentions, name, "collaborator"))
                 /\ aggregate.trial_count =
                       Cardinality(MentionsOf(call.mentions, name))
                 /\ aggregate.trial_ids =
                       {call.mentions[i].trial : i \in MentionsOf(call.mentions, name)}

\* the mentions A-lead, B-collaborator, A-collaborator have been processed:
\* A has lead_count 1, collab_count 1 and trial_count 2
C16_Witness ==
    /\ call.op = "roster"
    /\ call.pending = <<>>
    /\ call.mentions =
          << [organization |-> "A", role |-> "lead", trial |-> "NCT01"],
             [organization |-> "B", role |-> "collaborator", trial |-> "NCT01"],
             [organization |-> "A", role |-> "collaborator", trial |-> "NCT02"] >>
    /\ call.roster["A"].lead_count = 1
    /\ call.roster["A"].collab_count = 1
    /\ call.roster["A"].trial_count = 2

(***************************************************************************)
(* Termination of fetch_trials.  Every page request is answered (it        *)
(* returns a page or fails, requests.get having a timeout), so the loop    *)
(* takes its next step whenever it has one: weak fairness of the two steps *)
(* of the loop.  max_results is at most MaxRequests, so that the loop is   *)
(* followed to its end whatever the registry answers.                      *)
(***************************************************************************)
FetchCallWithin == \E m \in 0..MaxRequests : FetchStart(m)

NextFetchLive == FetchCallWithin \/ FetchReturn \/ FetchPage

SpecFetchLive ==
    InitFetch /\ [][NextFetchLive]_vars /\ WF_vars(FetchPage) /\ WF_vars(FetchReturn)

\* the last page request of the activation
LastRequest == requests[Len(requests)]

\* one of the conditions under which the loop is left holds
ExitCondition ==
    \/ ~LoopCond(Len(trials_data), max_results)
    \/ /\ requests # <<>>
       /\ \/ LastRequest.outcome # "ok"
          \/ LastRequest.studies = <<>>
          \/ LastRequest.nextPageToken = None

\* C18: fetch_trials terminates.  Whatever the registry answers (a non-empty
\* page and a continuation token to every request included), a loop that is
\* running is eventually left; every iteration that stays in the loop has
\* added a record; the loop is left only when the count has reached
\* max_results, on an empty page, on a page without a continuation token or
\* on a failed request; and each request after the first carries the
\* continuation token of the response before it.
C18_Terminates ==
    /\ (pc = "loop") ~> (pc \in {"returned", "raised"})
    /\ [][(pc = "loop" /\ pc' = "loop") => Len(trials_data') > Len(trials_data)]_vars
    /\ [](pc \in {"returned", "raised"} => ExitCondition)
    /\ [](\A i \in 2..Len(requests) :
             /\ requests[i - 1].nextPageToken # None
             /\ requests[i].pageToken = requests[i - 1].nextPageToken)

\* every request was answered with a non-empty page and a continuation
\* token, three requests were sent, each after the first with the token of
\* the response before it, and the loop was left with the count reached
C18_Witness ==
    /\ pc = "returned"
    /\ Len(requests) >= 3
    /\ \A i \in 1..Len(requests) :
          /\ requests[i].outcome = "ok"
          /\ requests[i].studies # <<>>
          /\ requests[i].nextPageToken # None
          /\ i > 1 => requests[i].pageToken = requests[i - 1].nextPageToken
    /\ ~LoopCond(Len(trials_data), max_results)

====
